---- MODULE Spec2Model ----
(***************************************************************************)
(* College appointment system: the availability routes and the appointment *)
(* routes over the Availability and Appointment collections.               *)
(*                                                                         *)
(* Time is counted in minutes.  A stored date is the instant of midnight   *)
(* of its day (new Date("2030-01-01")), a time of day is an HH:MM string,  *)
(* kept as a sequence of characters so that the route's format validator   *)
(* and string equality act on the text.                                    *)
(***************************************************************************)
EXTENDS Integers, Sequences, FiniteSets, TLC

\* ---------------------------------------------------------------- bounds
MaxSlots == 2        \* availability documents ever created
MaxAppts == 2        \* appointment documents ever created

\* ------------------------------------------------------------ the users
Professors == {"P1", "P2"}
Students == {"A1", "A2"}
Users == Professors \cup Students
Null == "null"

role(u) == IF u \in Professors THEN "professor" ELSE "student"

\* authorize(requiredRole): the request passes when the caller has the role
authorize(required, u) == role(u) = required

\* ------------------------------------------------------- dates and times
MinutesPerDay == 1440

\* request bodies' date strings; the last one is not ISO 8601
DateInputs == {"2030-01-01", "2030-01-02", "tomorrow"}

isISO8601(d) == d \in {"2030-01-01", "2030-01-02"}

\* new Date(date): midnight UTC of the day, in minutes from 2029-12-31T00:00Z
ParseDate(d) ==
  CASE d = "2030-01-01" -> MinutesPerDay
    [] d = "2030-01-02" -> 2 * MinutesPerDay

\* new Date(): 10:00 on 2029-12-31, then 08:30 and 09:30 on 2030-01-01
Clock == {600, 1950, 2010}

T0900 == <<"9", ":", "0", "0">>
T1000 == <<"1", "0", ":", "0", "0">>
TimeInputs == {T0900, T1000}

Digits == {"0", "1", "2", "3", "4", "5", "6", "7", "8", "9"}

DigitVal(c) ==
  CASE c = "0" -> 0 [] c = "1" -> 1 [] c = "2" -> 2 [] c = "3" -> 3
    [] c = "4" -> 4 [] c = "5" -> 5 [] c = "6" -> 6 [] c = "7" -> 7
    [] c = "8" -> 8 [] c = "9" -> 9

\* /^([0-1]?[0-9]|2[0-3]):[0-5][0-9]$/
TimeFormatOk(t) ==
  \/ /\ Len(t) = 4
     /\ t[1] \in Digits
     /\ t[2] = ":"
     /\ t[3] \in {"0", "1", "2", "3", "4", "5"}
     /\ t[4] \in Digits
  \/ /\ Len(t) = 5
     /\ \/ t[1] \in {"0", "1"} /\ t[2] \in Digits
        \/ t[1] = "2" /\ t[2] \in {"0", "1", "2", "3"}
     /\ t[3] = ":"
     /\ t[4] \in {"0", "1", "2", "3", "4", "5"}
     /\ t[5] \in Digits

\* minutes after midnight of a well-formed HH:MM string
TimeOfDay(t) ==
  IF Len(t) = 4
    THEN DigitVal(t[1]) * 60 + DigitVal(t[3]) * 10 + DigitVal(t[4])
    ELSE (DigitVal(t[1]) * 10 + DigitVal(t[2])) * 60
           + DigitVal(t[4]) * 10 + DigitVal(t[5])

\* the UTF-16 code unit of a character of a time string
CharCode(c) == IF c = ":" THEN 58 ELSE 48 + DigitVal(c)

\* x < y on strings: the first code unit that differs decides, a proper
\* prefix comes first
StringLess(x, y) ==
  \E i \in 1 .. Len(y) :
    /\ i - 1 <= Len(x)
    /\ \A j \in 1 .. (i - 1) : x[j] = y[j]
    /\ i > Len(x) \/ CharCode(x[i]) < CharCode(y[i])

\* EndAfterStart comparing the two strings instead of the times of day
EndAfterStart_StringCompare(startTime, endTime) == StringLess(startTime, endTime)

\* the Availability schema's check, whose failure the create route reports
\* as 'End time must be after start time'
EndAfterStart(startTime, endTime) == TimeOfDay(endTime) > TimeOfDay(startTime)

\* ------------------------------------------------------------- the state
VARIABLES
  slots,          \* Availability collection: _id -> document
  nextSlotId,     \* the next Availability _id
  appointments,   \* Appointment collection: _id -> document (a sequence)
  now,            \* the current instant
  procs           \* the requests in flight: a book request per student,
                  \* and the create requests

vars == <<slots, nextSlotId, appointments, now, procs>>

SlotIds == 1 .. MaxSlots
ApptIds == 1 .. MaxAppts

\* a request's id that is no ObjectId (isMongoId fails, a query's cast throws)
MalformedId == 0
wellFormedId(x) == x # MalformedId

Statuses == {"pending", "confirmed", "cancelled", "completed"}
StatusInputs == Statuses \cup {"archived"}

\* body('notes').isLength({ max: 500 })
MaxNotesLen == 500
NotesInputs == {500, 501}

\* the Appointment schema's default status
DefaultStatus == "confirmed"

NoSlot ==
  [professor |-> Null, date |-> 0, startTime |-> <<>>, endTime |-> <<>>,
   isBooked |-> FALSE, bookedBy |-> Null]
IdleProc == [pc |-> "idle", slot |-> 0, avail |-> NoSlot, code |-> 0]

\* the create requests that can be in flight together
CreateRequests == {"R1", "R2"}

Init ==
  /\ slots = [s \in {} |-> NoSlot]
  /\ nextSlotId = 1
  /\ appointments = <<>>
  /\ now \in Clock
  /\ procs = [x \in Students \cup CreateRequests |-> IdleProc]

\* what a handler does: the response it sends and the collections it leaves
Result(code, msg, newSlots, newAppointments) ==
  [code |-> code, msg |-> msg, slots |-> newSlots, appointments |-> newAppointments]

\* an early return: the response, nothing written
Reject(code, msg) == Result(code, msg, slots, appointments)

\* --------------------------------------------------------------- queries
\* GET /professor/:professorId, without and with the date query
ListAvailableSlots(p, d) ==
  {s \in DOMAIN slots :
     /\ slots[s].professor = p
     /\ slots[s].isBooked = FALSE
     /\ IF d = Null THEN slots[s].date >= now ELSE slots[s].date = ParseDate(d)}

\* GET /my-appointments
ListMyAppointments(st, status) ==
  {a \in DOMAIN appointments :
     /\ appointments[a].student = st
     /\ status # Null => appointments[a].status = status}

\* GET /professor-appointments
ListProfessorAppointments(p, status, d) ==
  {a \in DOMAIN appointments :
     /\ appointments[a].professor = p
     /\ status # Null => appointments[a].status = status
     /\ d # Null => appointments[a].date = ParseDate(d)}

\* the appointments listed for a caller: the student's route reads only
\* the status query, the professor's route the status and the date queries
ListAppointments(u, status, d) ==
  IF role(u) = "student"
    THEN ListMyAppointments(u, status)
    ELSE ListProfessorAppointments(u, status, d)

\* a read request's response: the status, the message and the data sent
Response(code, msg, data) == [code |-> code, msg |-> msg, data |-> data]

\* an appointment id that is well formed and that no document ever has
AbsentApptId == MaxAppts + 1

\* GetAppointmentResult with the lookup by _id alone
GetAppointmentResult_NoRoleFilter(u, a) ==
  IF ~wellFormedId(a)
    THEN Response(500, "Error fetching appointment", Null)
  ELSE IF a \notin DOMAIN appointments
    THEN Response(404, "Appointment not found", Null)
  ELSE Response(200, Null, appointments[a])

\* GET /:appointmentId
GetAppointmentResult(u, a) ==
  IF ~wellFormedId(a)
    THEN Response(500, "Error fetching appointment", Null)
  ELSE IF \/ a \notin DOMAIN appointments
          \/ role(u) = "student" /\ appointments[a].student # u
          \/ role(u) = "professor" /\ appointments[a].professor # u
    THEN Response(404, "Appointment not found", Null)
  ELSE Response(200, Null, appointments[a])

\* ------------------------------------------------ the availability routes
NewSlot(p, d, startTime, endTime) ==
  [professor |-> p, date |-> ParseDate(d), startTime |-> startTime,
   endTime |-> endTime, isBooked |-> FALSE, bookedBy |-> Null]

\* existingSlot with the lookup narrowed to unbooked slots
existingSlot_OnlyUnbooked(p, d, startTime, endTime) ==
  \E s \in DOMAIN slots :
    /\ slots[s].professor = p
    /\ slots[s].date = ParseDate(d)
    /\ slots[s].startTime = startTime
    /\ slots[s].endTime = endTime
    /\ slots[s].isBooked = FALSE

\* Availability.findOne({professor, date, startTime, endTime})
existingSlot(p, d, startTime, endTime) ==
  \E s \in DOMAIN slots :
    /\ slots[s].professor = p
    /\ slots[s].date = ParseDate(d)
    /\ slots[s].startTime = startTime
    /\ slots[s].endTime = endTime

\* CreateSlotResult without authorize('professor')
CreateSlotResult_NoAuthorize(u, d, startTime, endTime) ==
  IF ~isISO8601(d) \/ ~TimeFormatOk(startTime) \/ ~TimeFormatOk(endTime)
    THEN Reject(400, "Validation errors")
  ELSE IF existingSlot(u, d, startTime, endTime)
    THEN Reject(400, "This time slot already exists")
  ELSE IF ~EndAfterStart(startTime, endTime)
    THEN Reject(400, "End time must be after start time")
  ELSE Result(201, "Availability slot created successfully",
              [s \in DOMAIN slots \cup {nextSlotId} |->
                 IF s = nextSlotId THEN NewSlot(u, d, startTime, endTime)
                                   ELSE slots[s]],
              appointments)

\* POST /  (create an availability slot)
CreateSlotResult(u, d, startTime, endTime) ==
  IF ~authorize("professor", u)
    THEN Reject(403, "Access denied")
  ELSE IF ~isISO8601(d) \/ ~TimeFormatOk(startTime) \/ ~TimeFormatOk(endTime)
    THEN Reject(400, "Validation errors")
  ELSE IF existingSlot(u, d, startTime, endTime)
    THEN Reject(400, "This time slot already exists")
  ELSE IF ~EndAfterStart(startTime, endTime)
    THEN Reject(400, "End time must be after start time")
  ELSE Result(201, "Availability slot created successfully",
              [s \in DOMAIN slots \cup {nextSlotId} |->
                 IF s = nextSlotId THEN NewSlot(u, d, startTime, endTime)
                                   ELSE slots[s]],
              appointments)

CreateSlot(u, d, startTime, endTime) ==
  LET r == CreateSlotResult(u, d, startTime, endTime) IN
  /\ r.code = 201 => nextSlotId <= MaxSlots
  /\ slots' = r.slots
  /\ nextSlotId' = IF r.code = 201 THEN nextSlotId + 1 ELSE nextSlotId
  /\ UNCHANGED <<appointments, now, procs>>

\* DeleteSlotResult without the isBooked check
DeleteSlotResult_NoBookedCheck(u, s) ==
  IF ~authorize("professor", u)
    THEN Reject(403, "Access denied")
  ELSE IF ~wellFormedId(s)
    THEN Reject(500, "Error deleting availability slot")
  ELSE IF s \notin DOMAIN slots \/ slots[s].professor # u
    THEN Reject(404, "Availability slot not found")
  ELSE Result(200, "Availability slot deleted successfully",
              [x \in DOMAIN slots \ {s} |-> slots[x]], appointments)

\* DELETE /:slotId
DeleteSlotResult(u, s) ==
  IF ~authorize("professor", u)
    THEN Reject(403, "Access denied")
  ELSE IF ~wellFormedId(s)
    THEN Reject(500, "Error deleting availability slot")
  ELSE IF s \notin DOMAIN slots \/ slots[s].professor # u
    THEN Reject(404, "Availability slot not found")
  ELSE IF slots[s].isBooked
    THEN Reject(400, "Cannot delete booked slot. Cancel the appointment first.")
  ELSE Result(200, "Availability slot deleted successfully",
              [x \in DOMAIN slots \ {s} |-> slots[x]], appointments)

DeleteSlot(u, s) ==
  /\ slots' = DeleteSlotResult(u, s).slots
  /\ UNCHANGED <<nextSlotId, appointments, now, procs>>

\* ------------------------------------------------- the appointment routes
\* NewAppointment with the status left pending
NewAppointment_Pending(st, s, avail) ==
  [student |-> st, professor |-> avail.professor, availability |-> s,
   date |-> avail.date, startTime |-> avail.startTime,
   endTime |-> avail.endTime, status |-> "pending"]

NewAppointment(st, s, avail) ==
  [student |-> st, professor |-> avail.professor, availability |-> s,
   date |-> avail.date, startTime |-> avail.startTime,
   endTime |-> avail.endTime, status |-> DefaultStatus]

\* IsPast with the comparison turned round
IsPast_Reversed(avail) == avail.date > now

\* new Date(availability.date) < new Date()
IsPast(avail) == avail.date < now

\* MarkBooked that sets the flag and leaves bookedBy as it was
MarkBooked_FlagOnly(avail, st) == [avail EXCEPT !.isBooked = TRUE]

\* availability.isBooked = true; availability.bookedBy = req.user._id
MarkBooked(avail, st) == [avail EXCEPT !.isBooked = TRUE, !.bookedBy = st]

\* MarkFree that clears bookedBy and leaves isBooked set
MarkFree_KeepsFlag(avail) == [avail EXCEPT !.bookedBy = Null]

\* availability.isBooked = false; availability.bookedBy = null
MarkFree(avail) == [avail EXCEPT !.isBooked = FALSE, !.bookedBy = Null]

\* POST /book
BookSlotResult(u, s, notesLen) ==
  IF ~authorize("student", u)
    THEN Reject(403, "Access denied")
  ELSE IF ~wellFormedId(s) \/ notesLen > MaxNotesLen
    THEN Reject(400, "Validation errors")
  ELSE IF s \notin DOMAIN slots
    THEN Reject(404, "Availability slot not found")
  ELSE IF slots[s].isBooked
    THEN Reject(400, "This time slot is already booked")
  ELSE IF IsPast(slots[s])
    THEN Reject(400, "Cannot book past time slots")
  ELSE Result(201, "Appointment booked successfully",
              [slots EXCEPT ![s] = MarkBooked(slots[s], u)],
              Append(appointments, NewAppointment(u, s, slots[s])))

BookSlot(u, s, notesLen) ==
  LET r == BookSlotResult(u, s, notesLen) IN
  /\ r.code = 201 => Len(appointments) < MaxAppts
  /\ slots' = r.slots
  /\ appointments' = r.appointments
  /\ UNCHANGED <<nextSlotId, now, procs>>

\* CancelAppointmentResult without the already-cancelled check
CancelAppointmentResult_NoCancelledCheck(u, a) ==
  IF ~authorize("professor", u)
    THEN Reject(403, "Access denied")
  ELSE IF ~wellFormedId(a)
    THEN Reject(500, "Error cancelling appointment")
  ELSE IF a \notin DOMAIN appointments \/ appointments[a].professor # u
    THEN Reject(404, "Appointment not found")
  ELSE IF appointments[a].availability \notin DOMAIN slots
    THEN Result(500, "Error cancelling appointment", slots,
                [appointments EXCEPT ![a].status = "cancelled"])
  ELSE Result(200, "Appointment cancelled successfully",
              [slots EXCEPT ![appointments[a].availability] =
                 MarkFree(slots[appointments[a].availability])],
              [appointments EXCEPT ![a].status = "cancelled"])

\* CancelAppointmentResult freeing every slot of the professor
CancelAppointmentResult_FreesAllSlots(u, a) ==
  IF ~authorize("professor", u)
    THEN Reject(403, "Access denied")
  ELSE IF ~wellFormedId(a)
    THEN Reject(500, "Error cancelling appointment")
  ELSE IF a \notin DOMAIN appointments \/ appointments[a].professor # u
    THEN Reject(404, "Appointment not found")
  ELSE IF appointments[a].status = "cancelled"
    THEN Reject(400, "Appointment is already cancelled")
  ELSE IF appointments[a].availability \notin DOMAIN slots
    THEN Result(500, "Error cancelling appointment", slots,
                [appointments EXCEPT ![a].status = "cancelled"])
  ELSE Result(200, "Appointment cancelled successfully",
              [s \in DOMAIN slots |->
                 IF slots[s].professor = u THEN MarkFree(slots[s]) ELSE slots[s]],
              [appointments EXCEPT ![a].status = "cancelled"])

\* PUT /cancel/:appointmentId
CancelAppointmentResult(u, a) ==
  IF ~authorize("professor", u)
    THEN Reject(403, "Access denied")
  ELSE IF ~wellFormedId(a)
    THEN Reject(500, "Error cancelling appointment")
  ELSE IF a \notin DOMAIN appointments \/ appointments[a].professor # u
    THEN Reject(404, "Appointment not found")
  ELSE IF appointments[a].status = "cancelled"
    THEN Reject(400, "Appointment is already cancelled")
  ELSE IF appointments[a].availability \notin DOMAIN slots
    \* the status is saved, then populate's null availability is dereferenced
    THEN Result(500, "Error cancelling appointment", slots,
                [appointments EXCEPT ![a].status = "cancelled"])
  ELSE Result(200, "Appointment cancelled successfully",
              [slots EXCEPT ![appointments[a].availability] =
                 MarkFree(slots[appointments[a].availability])],
              [appointments EXCEPT ![a].status = "cancelled"])

CancelAppointment(u, a) ==
  LET r == CancelAppointmentResult(u, a) IN
  /\ slots' = r.slots
  /\ appointments' = r.appointments
  /\ UNCHANGED <<nextSlotId, now, procs>>

\* UpdateAppointmentStatusResult with the lookup by _id alone
UpdateAppointmentStatusResult_NoOwnerCheck(u, a, status) ==
  IF ~authorize("professor", u)
    THEN Reject(403, "Access denied")
  ELSE IF status \notin Statuses
    THEN Reject(400, "Validation errors")
  ELSE IF ~wellFormedId(a)
    THEN Reject(500, "Error updating appointment status")
  ELSE IF a \notin DOMAIN appointments
    THEN Reject(404, "Appointment not found")
  ELSE Result(200, "Appointment status updated successfully",
              IF status = "cancelled" /\ appointments[a].availability \in DOMAIN slots
                THEN [slots EXCEPT ![appointments[a].availability] =
                        MarkFree(slots[appointments[a].availability])]
                ELSE slots,
              [appointments EXCEPT ![a].status = status])

\* PUT /:appointmentId/status
UpdateAppointmentStatusResult(u, a, status) ==
  IF ~authorize("professor", u)
    THEN Reject(403, "Access denied")
  ELSE IF status \notin Statuses
    THEN Reject(400, "Validation errors")
  ELSE IF ~wellFormedId(a)
    THEN Reject(500, "Error updating appointment status")
  ELSE IF a \notin DOMAIN appointments \/ appointments[a].professor # u
    THEN Reject(404, "Appointment not found")
  ELSE Result(200, "Appointment status updated successfully",
              IF status = "cancelled" /\ appointments[a].availability \in DOMAIN slots
                THEN [slots EXCEPT ![appointments[a].availability] =
                        MarkFree(slots[appointments[a].availability])]
                ELSE slots,
              [appointments EXCEPT ![a].status = status])

UpdateAppointmentStatus(u, a, status) ==
  LET r == UpdateAppointmentStatusResult(u, a, status) IN
  /\ slots' = r.slots
  /\ appointments' = r.appointments
  /\ UNCHANGED <<nextSlotId, now, procs>>

\* the clock moves on
Tick ==
  /\ \E t \in Clock : t > now /\ now' = t
  /\ UNCHANGED <<slots, nextSlotId, appointments, procs>>

\* ------------------------------------- POST /book, one store access a step
\* the request arrives from a student, with a well-formed body
BookBegin(st, s) ==
  /\ procs[st].pc \in {"idle", "done"}
  /\ procs' = [procs EXCEPT ![st] = [pc |-> "find", slot |-> s, avail |-> NoSlot, code |-> 0]]
  /\ UNCHANGED <<slots, nextSlotId, appointments, now>>

\* Availability.findById, then the checks on the document read
BookFind(st) ==
  /\ procs[st].pc = "find"
  /\ LET s == procs[st].slot IN
       procs' = [procs EXCEPT ![st] =
         IF s \notin DOMAIN slots THEN [@ EXCEPT !.pc = "done", !.code = 404]
         ELSE IF slots[s].isBooked THEN [@ EXCEPT !.pc = "done", !.code = 400]
         ELSE IF IsPast(slots[s]) THEN [@ EXCEPT !.pc = "done", !.code = 400]
         ELSE [@ EXCEPT !.pc = "saveAppointment", !.avail = slots[s]]]
  /\ UNCHANGED <<slots, nextSlotId, appointments, now>>

\* appointment.save()
BookSaveAppointment(st) ==
  /\ procs[st].pc = "saveAppointment"
  /\ Len(appointments) < MaxAppts
  /\ appointments' = Append(appointments, NewAppointment(st, procs[st].slot, procs[st].avail))
  /\ procs' = [procs EXCEPT ![st].pc = "saveSlot"]
  /\ UNCHANGED <<slots, nextSlotId, now>>

\* availability.save(): the two modified paths are written to the document;
\* when the document has been deleted since it was read the save matches
\* nothing and throws, and the catch block answers 500
BookSaveSlot(st) ==
  /\ procs[st].pc = "saveSlot"
  /\ IF procs[st].slot \in DOMAIN slots
       THEN /\ slots' = [slots EXCEPT ![procs[st].slot] = MarkBooked(@, st)]
            /\ procs' = [procs EXCEPT ![st] = [@ EXCEPT !.pc = "done", !.code = 201]]
       ELSE /\ slots' = slots
            /\ procs' = [procs EXCEPT ![st] = [@ EXCEPT !.pc = "done", !.code = 500]]
  /\ UNCHANGED <<nextSlotId, appointments, now>>

\* availability.save() rejected by the store: nothing is written, and the
\* catch block answers 500
BookSaveSlotFails(st) ==
  /\ procs[st].pc = "saveSlot"
  /\ procs' = [procs EXCEPT ![st] = [@ EXCEPT !.pc = "done", !.code = 500]]
  /\ UNCHANGED <<slots, nextSlotId, appointments, now>>

\* ----------------------------------------- POST /, one store access a step
\* the request arrives from a professor, with a body the validators accept
CreateBegin(r, p, d, startTime, endTime) ==
  /\ procs[r].pc \in {"idle", "done"}
  /\ isISO8601(d) /\ TimeFormatOk(startTime) /\ TimeFormatOk(endTime)
  /\ procs' = [procs EXCEPT ![r] =
       [pc |-> "findExisting", slot |-> 0,
        avail |-> NewSlot(p, d, startTime, endTime), code |-> 0]]
  /\ UNCHANGED <<slots, nextSlotId, appointments, now>>

\* Availability.findOne({professor, date, startTime, endTime})
CreateFind(r) ==
  /\ procs[r].pc = "findExisting"
  /\ procs' = [procs EXCEPT ![r] =
       IF \E s \in DOMAIN slots :
            /\ slots[s].professor = procs[r].avail.professor
            /\ slots[s].date = procs[r].avail.date
            /\ slots[s].startTime = procs[r].avail.startTime
            /\ slots[s].endTime = procs[r].avail.endTime
         THEN [@ EXCEPT !.pc = "done", !.code = 400]
         ELSE [@ EXCEPT !.pc = "save"]]
  /\ UNCHANGED <<slots, nextSlotId, appointments, now>>

\* availability.save(): the schema's check, then the insert
CreateSave(r) ==
  /\ procs[r].pc = "save"
  /\ IF ~EndAfterStart(procs[r].avail.startTime, procs[r].avail.endTime)
       THEN /\ procs' = [procs EXCEPT ![r] = [@ EXCEPT !.pc = "done", !.code = 400]]
            /\ UNCHANGED <<slots, nextSlotId>>
       ELSE /\ nextSlotId <= MaxSlots
            /\ slots' = [s \in DOMAIN slots \cup {nextSlotId} |->
                           IF s = nextSlotId THEN procs[r].avail ELSE slots[s]]
            /\ nextSlotId' = nextSlotId + 1
            /\ procs' = [procs EXCEPT ![r] = [@ EXCEPT !.pc = "done", !.code = 201]]
  /\ UNCHANGED <<appointments, now>>

\* availability.save() rejected by the store: nothing is written, and the
\* catch block answers 500
CreateSaveFails(r) ==
  /\ procs[r].pc = "save"
  /\ procs' = [procs EXCEPT ![r] = [@ EXCEPT !.pc = "done", !.code = 500]]
  /\ UNCHANGED <<slots, nextSlotId, appointments, now>>

\* ------------------------------------------------------ the specifications
DoCreateSlot ==
  \E u \in Users, d \in DateInputs, startTime \in TimeInputs, endTime \in TimeInputs :
    CreateSlot(u, d, startTime, endTime)
DoDeleteSlot == \E u \in Users, s \in SlotIds \cup {MalformedId} : DeleteSlot(u, s)
DoBookSlot ==
  \E u \in Users, s \in SlotIds \cup {MalformedId}, n \in NotesInputs : BookSlot(u, s, n)
DoCancelAppointment ==
  \E u \in Users, a \in ApptIds \cup {MalformedId} : CancelAppointment(u, a)
DoUpdateAppointmentStatus ==
  \E u \in Users, a \in ApptIds \cup {MalformedId}, status \in StatusInputs :
    UpdateAppointmentStatus(u, a, status)

\* every request handled atomically
Next ==
  \/ DoCreateSlot
  \/ DoDeleteSlot
  \/ DoBookSlot
  \/ DoCancelAppointment
  \/ DoUpdateAppointmentStatus
  \/ Tick

Spec == Init /\ [][Next]_vars

\* only slot creation, booking and cancellation, each atomic
NextBookCancel ==
  \/ DoCreateSlot
  \/ DoBookSlot
  \/ DoCancelAppointment
  \/ Tick

SpecBookCancel == Init /\ [][NextBookCancel]_vars

\* slot creation, and book requests whose store accesses interleave
NextBookRace ==
  \/ DoCreateSlot
  \/ \E st \in Students, s \in SlotIds : BookBegin(st, s)
  \/ \E st \in Students : BookFind(st)
  \/ \E st \in Students : BookSaveAppointment(st)
  \/ \E st \in Students : BookSaveSlot(st)
  \/ Tick

SpecBookRace == Init /\ [][NextBookRace]_vars

\* slot creation, and book requests whose second write may fail
NextBookFail ==
  \/ DoCreateSlot
  \/ \E st \in Students, s \in SlotIds : BookBegin(st, s)
  \/ \E st \in Students : BookFind(st)
  \/ \E st \in Students : BookSaveAppointment(st)
  \/ \E st \in Students : BookSaveSlot(st)
  \/ \E st \in Students : BookSaveSlotFails(st)
  \/ Tick

SpecBookFail == Init /\ [][NextBookFail]_vars

\* slot creation and deletion, and book requests whose store accesses
\* interleave with them
NextBookDelete ==
  \/ DoCreateSlot
  \/ DoDeleteSlot
  \/ \E st \in Students, s \in SlotIds : BookBegin(st, s)
  \/ \E st \in Students : BookFind(st)
  \/ \E st \in Students : BookSaveAppointment(st)
  \/ \E st \in Students : BookSaveSlot(st)
  \/ Tick

SpecBookDelete == Init /\ [][NextBookDelete]_vars

\* create requests whose store accesses interleave
NextCreateRace ==
  \/ \E r \in CreateRequests, p \in Professors, d \in DateInputs,
        startTime \in TimeInputs, endTime \in TimeInputs :
       CreateBegin(r, p, d, startTime, endTime)
  \/ \E r \in CreateRequests : CreateFind(r)
  \/ \E r \in CreateRequests : CreateSave(r)
  \/ \E r \in CreateRequests : CreateSaveFails(r)

SpecCreateRace == Init /\ [][NextCreateRace]_vars

\* ------------------------------------------------------------ the claims
\* an appointment that is not cancelled
IsLive(a) == appointments[a].status # "cancelled"

\* the appointments referencing slot s whose status is not cancelled
LiveAppts(s) ==
  {a \in DOMAIN appointments : appointments[a].availability = s /\ IsLive(a)}

\* the instant a slot starts: its date's midnight plus its start time
SlotStart(avail) == avail.date + TimeOfDay(avail.startTime)

\* the date strings that parse to the stored date
DateStringsOf(date) == {d \in DateInputs : isISO8601(d) /\ ParseDate(d) = date}

\* C1: after any sequence of atomic BookSlot and CancelAppointment calls, a
\* slot has isBooked = true exactly when some appointment that is not
\* cancelled references it.
C1_BookedIffLiveAppointment ==
  \A s \in DOMAIN slots : slots[s].isBooked <=> LiveAppts(s) # {}

\* a slot booked, cancelled and booked again
C1_Witness ==
  \E s \in DOMAIN slots :
    /\ slots[s].isBooked
    /\ LiveAppts(s) # {}
    /\ \E a \in DOMAIN appointments :
         appointments[a].availability = s /\ appointments[a].status = "cancelled"

\* C2: of two book requests by different students for the same slot whose
\* store accesses interleave, exactly one is answered 201, and one
\* appointment is created for the slot.
C2_OneBookingWins ==
  /\ \A a, b \in Students :
       (/\ a # b
        /\ procs[a].pc = "done" /\ procs[b].pc = "done"
        /\ procs[a].slot = procs[b].slot)
       => ~(procs[a].code = 201 /\ procs[b].code = 201)
  /\ \A s \in SlotIds :
       Cardinality({x \in DOMAIN appointments : appointments[x].availability = s}) <= 1

\* C3: in every state reached by atomic CreateSlot, BookSlot,
\* CancelAppointment, UpdateAppointmentStatus and DeleteSlot calls, at most
\* one appointment that is not cancelled references any slot.
C3_AtMostOneLiveAppointment ==
  \A s \in SlotIds : Cardinality(LiveAppts(s)) <= 1

\* C4: a cancel request for an appointment that is already cancelled writes
\* nothing, and the owning professor is answered 400, also when the slot
\* has since been booked by another student.
C4_CancelCancelledRejected ==
  \A u \in Users, a \in DOMAIN appointments :
    appointments[a].status = "cancelled"
    => LET r == CancelAppointmentResult(u, a) IN
       /\ r.appointments = appointments
       /\ r.slots = slots
       /\ u = appointments[a].professor
            => r.code = 400 /\ r.msg = "Appointment is already cancelled"

\* a cancelled appointment whose slot another student has booked since, and
\* whose professor is refused the second cancellation
C4_Witness ==
  \E a \in DOMAIN appointments :
    /\ appointments[a].status = "cancelled"
    /\ appointments[a].availability \in DOMAIN slots
    /\ slots[appointments[a].availability].isBooked
    /\ slots[appointments[a].availability].bookedBy # appointments[a].student
    /\ CancelAppointmentResult(appointments[a].professor, a).code = 400

\* C5: after the professor cancels an appointment that is not cancelled, on
\* a slot that starts in the future, the slot is free, is listed among the
\* professor's available slots, can be booked by any student, and the
\* appointment is in its student's list with status cancelled.
C5_CancelReopensFutureSlot ==
  [][\A u \in Professors, a \in ApptIds :
       (/\ a \in DOMAIN appointments
        /\ appointments[a].professor = u
        /\ appointments[a].status # "cancelled"
        /\ appointments[a].availability \in DOMAIN slots
        /\ SlotStart(slots[appointments[a].availability]) > now
        /\ CancelAppointment(u, a))
       => LET s == appointments[a].availability IN
          /\ s \in DOMAIN slots'
          /\ slots'[s].isBooked = FALSE
          /\ slots'[s].bookedBy = Null
          /\ (s \in ListAvailableSlots(slots[s].professor, Null))'
          /\ \A st \in Students : (BookSlotResult(st, s, MaxNotesLen).code = 201)'
          /\ (a \in ListMyAppointments(appointments[a].student, Null))'
          /\ appointments'[a].status = "cancelled"
    ]_vars

\* C6: what a cancel request writes differs from the collections it found
\* in nothing but the status of its appointment and the isBooked and
\* bookedBy fields of the slot that appointment references.
C6_CancelFrame ==
  \A u \in Users, a \in ApptIds \cup {MalformedId} :
    LET r == CancelAppointmentResult(u, a) IN
    /\ DOMAIN r.appointments = DOMAIN appointments
    /\ DOMAIN r.slots = DOMAIN slots
    /\ \A b \in DOMAIN appointments :
         /\ b # a => r.appointments[b] = appointments[b]
         /\ [r.appointments[b] EXCEPT !.status = "x"]
              = [appointments[b] EXCEPT !.status = "x"]
    /\ \A s \in DOMAIN slots :
         /\ (a \in DOMAIN appointments => s # appointments[a].availability)
              => r.slots[s] = slots[s]
         /\ [r.slots[s] EXCEPT !.isBooked = FALSE, !.bookedBy = Null]
              = [slots[s] EXCEPT !.isBooked = FALSE, !.bookedBy = Null]

\* an appointment cancelled and its slot free, while another student's
\* confirmed appointment with the same professor and its slot stand
C6_Witness ==
  \E a, b \in DOMAIN appointments :
    /\ appointments[a].status = "cancelled"
    /\ appointments[a].availability \in DOMAIN slots
    /\ ~slots[appointments[a].availability].isBooked
    /\ appointments[b].professor = appointments[a].professor
    /\ appointments[b].student # appointments[a].student
    /\ appointments[b].status = "confirmed"
    /\ appointments[b].availability # appointments[a].availability
    /\ appointments[b].availability \in DOMAIN slots
    /\ slots[appointments[b].availability].bookedBy = appointments[b].student

\* C7: a professor's create request for a (professor, date, startTime,
\* endTime) that is already a slot is answered 400 and leaves the
\* Availability collection as it was, whether that slot is booked or not.
C7_DuplicateSlotRejected ==
  \A u \in Professors, d \in DateInputs, startTime \in TimeInputs, endTime \in TimeInputs :
    (/\ isISO8601(d)
     /\ \E s \in DOMAIN slots :
          /\ slots[s].professor = u
          /\ slots[s].date = ParseDate(d)
          /\ slots[s].startTime = startTime
          /\ slots[s].endTime = endTime)
    => LET r == CreateSlotResult(u, d, startTime, endTime) IN
       /\ r.code = 400
       /\ r.msg = "This time slot already exists"
       /\ r.slots = slots

\* a booked slot whose professor is refused a second slot of the same date
\* and times
C7_Witness ==
  \E s \in DOMAIN slots :
    /\ slots[s].isBooked
    /\ \E d \in DateStringsOf(slots[s].date) :
         CreateSlotResult(slots[s].professor, d, slots[s].startTime, slots[s].endTime).msg
           = "This time slot already exists"

\* C8: a delete request on a booked slot keeps the slot, and its owner is
\* answered 400; a cancel request that succeeds leaves the slot unbooked,
\* and the owner's delete request on an unbooked slot removes it; and no
\* step removes a slot that is booked.
C8_DeleteOnlyUnbooked ==
  /\ [](/\ \A u \in Users, s \in DOMAIN slots :
             LET r == DeleteSlotResult(u, s) IN
             IF slots[s].isBooked
               THEN r.slots = slots /\ (u = slots[s].professor => r.code = 400)
               ELSE u = slots[s].professor => r.code = 200 /\ s \notin DOMAIN r.slots
        /\ \A u \in Users, a \in DOMAIN appointments :
             LET r == CancelAppointmentResult(u, a) IN
             r.code = 200 => ~r.slots[appointments[a].availability].isBooked)
  /\ [][\A s \in DOMAIN slots : s \notin DOMAIN slots' => ~slots[s].isBooked]_vars

\* a slot that was booked, whose appointment was cancelled, and that has
\* been deleted since
C8_Witness ==
  \E s \in SlotIds :
    /\ s < nextSlotId
    /\ s \notin DOMAIN slots
    /\ \E a \in DOMAIN appointments :
         appointments[a].availability = s /\ appointments[a].status = "cancelled"

\* C9: a student's create request is answered 403 and creates no slot;
\* create, delete, cancel and status requests change the collections only
\* for a professor, book requests only for a student.
C9_RoleGating ==
  /\ \A u \in Users, d \in DateInputs, startTime \in TimeInputs, endTime \in TimeInputs :
       role(u) # "professor"
       => LET r == CreateSlotResult(u, d, startTime, endTime) IN
          r.code = 403 /\ r.slots = slots /\ r.appointments = appointments
  /\ \A u \in Users, s \in SlotIds \cup {MalformedId} :
       role(u) # "professor"
       => LET r == DeleteSlotResult(u, s) IN
          r.slots = slots /\ r.appointments = appointments
  /\ \A u \in Users, a \in ApptIds \cup {MalformedId} :
       role(u) # "professor"
       => LET r == CancelAppointmentResult(u, a) IN
          r.slots = slots /\ r.appointments = appointments
  /\ \A u \in Users, a \in ApptIds \cup {MalformedId}, status \in StatusInputs :
       role(u) # "professor"
       => LET r == UpdateAppointmentStatusResult(u, a, status) IN
          r.slots = slots /\ r.appointments = appointments
  /\ \A u \in Users, s \in SlotIds \cup {MalformedId}, n \in NotesInputs :
       role(u) # "student"
       => LET r == BookSlotResult(u, s, n) IN
          r.slots = slots /\ r.appointments = appointments

\* a create request that a professor is granted and a student is refused,
\* with a booked slot the student may not cancel and a free one the
\* professor may not book
C9_Witness ==
  /\ \E st \in Students, p \in Professors, d \in DateInputs :
       /\ CreateSlotResult(st, d, T0900, T1000).code = 403
       /\ CreateSlotResult(p, d, T0900, T1000).code = 201
  /\ \E a \in DOMAIN appointments :
       /\ IsLive(a)
       /\ CancelAppointmentResult(appointments[a].student, a).code = 403
  /\ \E s \in DOMAIN slots, st \in Students :
       /\ BookSlotResult(st, s, MaxNotesLen).code = 201
       /\ BookSlotResult(slots[s].professor, s, MaxNotesLen).code = 403

\* C10: a student's book request for an unbooked slot that started before
\* the current instant is answered 400, creates no appointment and leaves
\* the slot unbooked.
C10_PastSlotRejected ==
  \A st \in Students, s \in DOMAIN slots, n \in NotesInputs :
    (~slots[s].isBooked /\ SlotStart(slots[s]) < now)
    => LET r == BookSlotResult(st, s, n) IN
       /\ r.code = 400
       /\ r.appointments = appointments
       /\ r.slots = slots

\* an unbooked slot that has started, on which a well-formed book request is
\* refused as past
C10_Witness ==
  \E s \in DOMAIN slots, st \in Students :
    /\ ~slots[s].isBooked
    /\ SlotStart(slots[s]) < now
    /\ BookSlotResult(st, s, MaxNotesLen).msg = "Cannot book past time slots"

\* midnight of the day the current instant falls on
Today == (now \div MinutesPerDay) * MinutesPerDay

\* the date queries a list request carries: none, or an ISO 8601 day
DateQueries == {Null} \cup {d \in DateInputs : isISO8601(d)}

\* C11: with and without the date query, the slots listed for a professor
\* are exactly that professor's unbooked slots dated today or later (today
\* included) that match the date query.
C11_ListsTodayAndLater ==
  \A p \in Professors, d \in DateQueries :
    ListAvailableSlots(p, d) =
      {s \in DOMAIN slots :
         /\ slots[s].professor = p
         /\ ~slots[s].isBooked
         /\ slots[s].date >= Today
         /\ d # Null => slots[s].date = ParseDate(d)}

\* C12: a get request returns the appointment to its student and to its
\* professor; any other caller is answered 404, with the same response as
\* for an appointment id that no document has.
C12_VisibleToParticipantsOnly ==
  \A u \in Users, a \in DOMAIN appointments :
    LET r == GetAppointmentResult(u, a)
        absent == GetAppointmentResult(u, AbsentApptId) IN
    IF u \in {appointments[a].student, appointments[a].professor}
      THEN r.code = 200 /\ r.data = appointments[a]
      ELSE /\ r.code = 404
           /\ r.code = absent.code
           /\ r.msg = absent.msg
           /\ r.data = absent.data

\* an appointment that its student and its professor are shown, and that
\* the other student and the other professor are answered 404 for
C12_Witness ==
  \E a \in DOMAIN appointments :
    /\ GetAppointmentResult(appointments[a].student, a).code = 200
    /\ GetAppointmentResult(appointments[a].professor, a).code = 200
    /\ \E st \in Students : GetAppointmentResult(st, a).code = 404
    /\ \E p \in Professors : GetAppointmentResult(p, a).code = 404

\* C13: the appointments listed for a caller are exactly those in which the
\* caller is the student (for a student) or the professor (for a
\* professor) and that match the status and date queries; with a date
\* query, no appointment of another date is listed, for either role.
C13_ListsExactlyMatching ==
  \A u \in Users, status \in Statuses \cup {Null}, d \in DateQueries :
    ListAppointments(u, status, d) =
      {a \in DOMAIN appointments :
         /\ u = (IF role(u) = "student" THEN appointments[a].student
                                        ELSE appointments[a].professor)
         /\ status # Null => appointments[a].status = status
         /\ d # Null => appointments[a].date = ParseDate(d)}

\* C14: when the slot of an appointment that is not cancelled no longer
\* exists, the owning professor's cancel request is answered 200 and
\* leaves the appointment cancelled.
C14_CancelSucceedsWithoutSlot ==
  \A a \in DOMAIN appointments :
    (/\ appointments[a].status # "cancelled"
     /\ appointments[a].availability \notin DOMAIN slots)
    => LET r == CancelAppointmentResult(appointments[a].professor, a) IN
       r.code = 200 /\ r.appointments[a].status = "cancelled"

\* C15: a cancel request and a status request by a professor who is not
\* the professor of the appointment are answered 404 and write nothing:
\* no appointment's status and no slot changes.
C15_NonOwnerNotFound ==
  \A u \in Professors, a \in DOMAIN appointments :
    u # appointments[a].professor
    => /\ LET r == CancelAppointmentResult(u, a) IN
            /\ r.code = 404
            /\ r.appointments = appointments
            /\ r.slots = slots
       /\ \A status \in Statuses :
            LET r == UpdateAppointmentStatusResult(u, a, status) IN
            /\ r.code = 404
            /\ r.appointments = appointments
            /\ r.slots = slots

\* a confirmed appointment on a booked slot that its professor may cancel
\* and that the other professor is answered 404 for, on both routes
C15_Witness ==
  \E a \in DOMAIN appointments, u \in Professors :
    /\ u # appointments[a].professor
    /\ appointments[a].status = "confirmed"
    /\ appointments[a].availability \in DOMAIN slots
    /\ slots[appointments[a].availability].isBooked
    /\ CancelAppointmentResult(appointments[a].professor, a).code = 200
    /\ CancelAppointmentResult(u, a).code = 404
    /\ UpdateAppointmentStatusResult(u, a, "cancelled").code = 404

\* C16: every slot in the Availability collection has its endTime later in
\* the day than its startTime, and a professor's create request whose
\* endTime is equal to or earlier than its startTime, both accepted by the
\* format validator (9:00 among them), is answered 400 and creates no slot.
C16_EndAfterStart ==
  /\ \A s \in DOMAIN slots :
       TimeOfDay(slots[s].endTime) > TimeOfDay(slots[s].startTime)
  /\ \A u \in Professors, d \in DateInputs, startTime \in TimeInputs, endTime \in TimeInputs :
       (/\ TimeFormatOk(startTime)
        /\ TimeFormatOk(endTime)
        /\ TimeOfDay(endTime) <= TimeOfDay(startTime))
       => LET r == CreateSlotResult(u, d, startTime, endTime) IN
          r.code = 400 /\ r.slots = slots

\* a slot from 9:00 to 10:00, whose professor is refused a slot from 10:00
\* to 9:00 and a slot from 9:00 to 9:00
C16_Witness ==
  \E s \in DOMAIN slots, d \in DateInputs :
    /\ slots[s].startTime = T0900
    /\ slots[s].endTime = T1000
    /\ CreateSlotResult(slots[s].professor, d, T1000, T0900).msg
         = "End time must be after start time"
    /\ CreateSlotResult(slots[s].professor, d, T0900, T0900).msg
         = "End time must be after start time"

\* in collections sl and ap, slot s is booked exactly when an appointment
\* that is not cancelled references it
BookedIffLive(sl, ap, s) ==
  sl[s].isBooked <=>
    \E b \in DOMAIN ap : ap[b].availability = s /\ ap[b].status # "cancelled"

\* C17: from a state in which every slot is booked exactly when a
\* non-cancelled appointment references it, a status request by the owning
\* professor, for any of the four statuses and any prior status, leaves
\* the referenced slot booked exactly when a non-cancelled appointment
\* references it.
C17_StatusUpdatePreservesInvariant ==
  (\A s \in DOMAIN slots : BookedIffLive(slots, appointments, s))
  => \A a \in DOMAIN appointments, status \in Statuses :
       LET r == UpdateAppointmentStatusResult(appointments[a].professor, a, status)
           s == appointments[a].availability IN
       s \in DOMAIN r.slots => BookedIffLive(r.slots, r.appointments, s)

\* C18: a request that reads a slot never finds it between another
\* request's two writes: whenever a book request is about to read its
\* slot, that slot is booked exactly when a non-cancelled appointment
\* references it.
C18_NoTornStateObserved ==
  \A st \in Students :
    (procs[st].pc = "find" /\ procs[st].slot \in DOMAIN slots)
    => BookedIffLive(slots, appointments, procs[st].slot)

\* C19: when the second write of a book request has failed, the request's
\* appointment does not stay non-cancelled on a slot that is not booked.
C19_FailedBookingLeavesNoHalf ==
  \A st \in Students :
    (/\ procs[st].pc = "done"
     /\ procs[st].code = 500
     /\ procs[st].slot \in DOMAIN slots)
    => \A a \in DOMAIN appointments :
         (/\ appointments[a].student = st
          /\ appointments[a].availability = procs[st].slot
          /\ IsLive(a))
         => slots[procs[st].slot].isBooked

\* C20: in every reachable state, also when delete and book requests on
\* the same slot interleave, every appointment that is not cancelled
\* references a slot that is in the Availability collection.
C20_NoOrphanedAppointment ==
  \A a \in DOMAIN appointments :
    IsLive(a) => appointments[a].availability \in DOMAIN slots

\* C21: in every reachable state, also when two create requests of one
\* professor for the same date and times interleave, no two slots have the
\* same professor, date, startTime and endTime.
C21_NoDuplicateSlot ==
  \A s, x \in DOMAIN slots :
    (/\ slots[s].professor = slots[x].professor
     /\ slots[s].date = slots[x].date
     /\ slots[s].startTime = slots[x].startTime
     /\ slots[s].endTime = slots[x].endTime)
    => s = x

\* C22: a book request answered 201 adds exactly one appointment, with
\* status confirmed, the caller as student, the slot's professor, date,
\* startTime and endTime, and leaves the slot with isBooked = true and
\* bookedBy = the caller; nothing else is written.
C22_BookingCreatesConfirmedAppointment ==
  \A u \in Users, s \in SlotIds \cup {MalformedId}, n \in NotesInputs :
    LET r == BookSlotResult(u, s, n) IN
    r.code = 201
    => /\ Len(r.appointments) = Len(appointments) + 1
       /\ SubSeq(r.appointments, 1, Len(appointments)) = appointments
       /\ LET ap == r.appointments[Len(r.appointments)] IN
            /\ ap.status = "confirmed"
            /\ ap.student = u
            /\ ap.availability = s
            /\ ap.professor = slots[s].professor
            /\ ap.date = slots[s].date
            /\ ap.startTime = slots[s].startTime
            /\ ap.endTime = slots[s].endTime
       /\ DOMAIN r.slots = DOMAIN slots
       /\ r.slots[s].isBooked
       /\ r.slots[s].bookedBy = u
       /\ \A x \in DOMAIN slots \ {s} : r.slots[x] = slots[x]

\* a slot booked by the student of its confirmed appointment, beside an
\* open slot of the other date that the other student can book
C22_Witness ==
  \E a \in DOMAIN appointments, x \in DOMAIN slots, st \in Students :
    /\ appointments[a].status = "confirmed"
    /\ appointments[a].availability \in DOMAIN slots
    /\ slots[appointments[a].availability].isBooked
    /\ slots[appointments[a].availability].bookedBy = appointments[a].student
    /\ slots[x].date # appointments[a].date
    /\ st # appointments[a].student
    /\ BookSlotResult(st, x, MaxNotesLen).code = 201

\* C23: a create, delete, book, cancel or status request that is answered
\* with anything but 200 or 201 leaves the Availability collection and the
\* Appointment collection as it found them.
C23_FailureWritesNothing ==
  LET Unchanged(r) ==
        r.code \notin {200, 201} => r.slots = slots /\ r.appointments = appointments
  IN
  /\ \A u \in Users, d \in DateInputs, startTime \in TimeInputs, endTime \in TimeInputs :
       Unchanged(CreateSlotResult(u, d, startTime, endTime))
  /\ \A u \in Users, s \in SlotIds \cup {MalformedId} :
       Unchanged(DeleteSlotResult(u, s))
  /\ \A u \in Users, s \in SlotIds \cup {MalformedId}, n \in NotesInputs :
       Unchanged(BookSlotResult(u, s, n))
  /\ \A u \in Users, a \in ApptIds \cup {MalformedId} :
       Unchanged(CancelAppointmentResult(u, a))
  /\ \A u \in Users, a \in ApptIds \cup {MalformedId}, status \in StatusInputs :
       Unchanged(UpdateAppointmentStatusResult(u, a, status))

\* C24: in every state reached by atomic requests, a booked slot has as
\* bookedBy the student of a non-cancelled appointment that references it,
\* and a slot that is not booked has no bookedBy.
C24_BookedByMatchesAppointment ==
  \A s \in DOMAIN slots :
    IF slots[s].isBooked
      THEN \E a \in LiveAppts(s) : appointments[a].student = slots[s].bookedBy
      ELSE slots[s].bookedBy = Null

\* a slot freed by the cancellation of its appointment, with no bookedBy,
\* beside a slot booked by the student of its non-cancelled appointment
C24_Witness ==
  \E s \in DOMAIN slots, x \in DOMAIN slots :
    /\ ~slots[s].isBooked
    /\ slots[s].bookedBy = Null
    /\ \E a \in DOMAIN appointments :
         appointments[a].availability = s /\ appointments[a].status = "cancelled"
    /\ slots[x].isBooked
    /\ \E b \in LiveAppts(x) : appointments[b].student = slots[x].bookedBy

====
